---- MODULE Spec2Model ----
(***************************************************************************)
(* A model of the pyviz front end: the dataset validator and text-edit     *)
(* handler (DataInput.jsx), the application state (App.js), the chart      *)
(* builder (ChartBuilder.jsx), the preview panel (PreviewPanel.jsx) and    *)
(* the code generator generateMockPythonCode (mock.js).                    *)
(*                                                                         *)
(* JavaScript values are tagged records:                                   *)
(*   [t |-> "undefined"], [t |-> "null"], [t |-> "bool", b |-> ...],       *)
(*   [t |-> "num", h |-> hundredths], [t |-> "str", s |-> ...],            *)
(*   [t |-> "arr", a |-> sequence], [t |-> "obj", f |-> key -> value],     *)
(*   [t |-> "text", lines |-> sequence of strings]  (a multi-line string). *)
(* Numbers are kept in hundredths, which is exact for every number the     *)
(* catalogs and the example datasets hold.  The catalog fields no code     *)
(* reads (description, icon) are left out of charts and themes.            *)
(***************************************************************************)
EXTENDS Integers, Sequences, FiniteSets, TLC

VARIABLES
    dataset,          \* App: useState(null)
    visualization,    \* App: useState(null)
    jsonInput,        \* DataInput: useState('')
    selectedExample,  \* DataInput: useState('')
    isValidJson,      \* DataInput: useState(true)
    selectedChart,    \* ChartBuilder: useState(null)
    customization,    \* ChartBuilder: useState({...})
    isLoading,        \* PreviewPanel: useState(false)
    previewImage,     \* PreviewPanel: useState(null)
    inflight,         \* axios.post calls that have not settled yet
    toast,            \* the notification raised last (useToast)
    pending,          \* effects scheduled by the last render, not yet run
    arg,              \* the argument of the pure function under check
    ret               \* its result

vars == <<dataset, visualization, jsonInput, selectedExample, isValidJson,
          selectedChart, customization, isLoading, previewImage, inflight,
          toast, pending, arg, ret>>

appVars == <<dataset, visualization, jsonInput, selectedExample, isValidJson,
             selectedChart, customization, isLoading, previewImage, inflight,
             toast, pending>>

-----------------------------------------------------------------------------
(* JavaScript values *)

Undefined == [t |-> "undefined"]

Null == [t |-> "null"]

Bool(b) == [t |-> "bool", b |-> b]

\* a number, given in hundredths
Num(h) == [t |-> "num", h |-> h]

\* a whole number
Whole(n) == Num(100 * n)

Str(s) == [t |-> "str", s |-> s]

Arr(a) == [t |-> "arr", a |-> a]

Obj(f) == [t |-> "obj", f |-> f]

\* a multi-line string, line by line
Text(lines) == [t |-> "text", lines |-> lines]

\* o.k
Get(o, k) ==
    IF o.t = "obj" /\ k \in DOMAIN o.f THEN o.f[k] ELSE Undefined

\* { ...o, k: v }
With(o, k, v) ==
    Obj([x \in DOMAIN o.f \cup {k} |-> IF x = k THEN v ELSE o.f[x]])

\* ToBoolean
Truthy(v) ==
    CASE v.t = "undefined" -> FALSE
      [] v.t = "null" -> FALSE
      [] v.t = "bool" -> v.b
      [] v.t = "num" -> v.h # 0
      [] v.t = "str" -> v.s # ""
      [] v.t = "text" -> v.lines # <<>>
      [] OTHER -> TRUE

\* Array.isArray
IsArray(v) == v.t = "arr"

\* v.length > 0, false where v has no length
LengthPositive(v) ==
    CASE v.t = "arr" -> Len(v.a) > 0
      [] v.t = "str" -> v.s # ""
      [] OTHER -> FALSE

\* a === b for a primitive b; an object is never === a primitive
StrictEquals(a, b) ==
    /\ a.t = b.t
    /\ a = b

\* Number::toString of a number held in hundredths
NumberToString(h) ==
    LET q == h \div 100
        r == h % 100
    IN  IF r = 0 THEN ToString(q)
        ELSE IF r % 10 = 0 THEN ToString(q) \o "." \o ToString(r \div 10)
        ELSE ToString(q) \o "." \o (IF r < 10 THEN "0" ELSE "") \o ToString(r)

\* x / 100
DivideBy100(v) == Num(v.h \div 100)

RECURSIVE Join(_, _)
\* the strings of a sequence, with sep between them
Join(strs, sep) ==
    IF strs = <<>> THEN ""
    ELSE IF Len(strs) = 1 THEN strs[1]
    ELSE strs[1] \o sep \o Join(Tail(strs), sep)

\* JSON.stringify of a primitive
StringifyScalar(v) ==
    CASE v.t = "str" -> "\"" \o v.s \o "\""
      [] v.t = "num" -> NumberToString(v.h)
      [] v.t = "bool" -> (IF v.b THEN "true" ELSE "false")
      [] OTHER -> "null"

\* JSON.stringify(v), as the template interpolates it
JSONstringify(v) ==
    CASE v.t = "arr" ->
            "[" \o Join([i \in 1..Len(v.a) |-> StringifyScalar(v.a[i])], ",") \o "]"
      [] v.t = "undefined" -> "undefined"
      [] v.t = "obj" -> "{}"
      [] OTHER -> StringifyScalar(v)

\* `${v}` in a template literal
Interpolate(v) ==
    CASE v.t = "str" -> v.s
      [] v.t = "num" -> NumberToString(v.h)
      [] v.t = "bool" -> (IF v.b THEN "true" ELSE "false")
      [] v.t = "undefined" -> "undefined"
      [] v.t = "null" -> "null"
      [] v.t = "arr" -> Join([i \in 1..Len(v.a) |-> v.a[i].s], ",")
      [] OTHER -> "[object Object]"

-----------------------------------------------------------------------------
(* mock.js: the static catalogs *)

mockDatasets ==
    [salesData |-> Obj([
        name |-> Str("Sales Performance"),
        rows |-> Arr(<<Str("Jan"), Str("Feb"), Str("Mar"), Str("Apr"),
                       Str("May"), Str("Jun")>>),
        cols |-> Arr(<<Whole(15000), Whole(22000), Whole(18000), Whole(25000),
                       Whole(28000), Whole(32000)>>),
        values |-> Arr(<<Num(15), Num(22), Num(18), Num(25), Num(28), Num(32)>>),
        description |-> Str("Monthly sales performance data")]),
     customerSegments |-> Obj([
        name |-> Str("Customer Segments"),
        rows |-> Arr(<<Str("Enterprise"), Str("SMB"), Str("Startup"),
                       Str("Individual")>>),
        cols |-> Arr(<<Whole(45), Whole(32), Whole(18), Whole(5)>>),
        values |-> Arr(<<Whole(450), Whole(320), Whole(180), Whole(50)>>),
        description |-> Str("Customer distribution by segment")]),
     temperatureData |-> Obj([
        name |-> Str("Temperature Analysis"),
        rows |-> Arr(<<Str("Mon"), Str("Tue"), Str("Wed"), Str("Thu"),
                       Str("Fri"), Str("Sat"), Str("Sun")>>),
        cols |-> Arr(<<Whole(22), Whole(25), Whole(28), Whole(24), Whole(26), Whole(29),
                       Whole(31)>>),
        values |-> Arr(<<Whole(22), Whole(25), Whole(28), Whole(24), Whole(26), Whole(29),
                         Whole(31)>>),
        description |-> Str("Weekly temperature readings")])]

ChartType(id, name, library, category) ==
    Obj([id |-> Str(id), name |-> Str(name), library |-> Str(library),
         category |-> Str(category)])

mockChartTypes ==
    << ChartType("matplotlib_line", "Line Chart", "matplotlib", "basic"),
       ChartType("matplotlib_bar", "Bar Chart", "matplotlib", "basic"),
       ChartType("matplotlib_scatter", "Scatter Plot", "matplotlib", "basic"),
       ChartType("seaborn_heatmap", "Heatmap", "seaborn", "statistical"),
       ChartType("seaborn_violin", "Violin Plot", "seaborn", "statistical"),
       ChartType("plotly_interactive", "Interactive Chart", "plotly",
                 "interactive") >>

ColorScheme(name, value, c1, c2, c3) ==
    Obj([name |-> Str(name), value |-> Str(value),
         colors |-> Arr(<<Str(c1), Str(c2), Str(c3)>>)])

Theme(name, value) == Obj([name |-> Str(name), value |-> Str(value)])

Size(name, value, width, height) ==
    Obj([name |-> Str(name), value |-> Str(value), width |-> Whole(width),
         height |-> Whole(height)])

mockCustomizationOptions ==
    [colors |->
        << ColorScheme("Default", "default", "#1f77b4", "#ff7f0e", "#2ca02c"),
           ColorScheme("Viridis", "viridis", "#440154", "#31688e", "#35b779"),
           ColorScheme("Plasma", "plasma", "#0d0887", "#cc4778", "#f0f921"),
           ColorScheme("Ocean", "ocean", "#003f5c", "#58508d", "#bc5090"),
           ColorScheme("Sunset", "sunset", "#ff6b35", "#f7931e", "#ffd23f") >>,
     themes |->
        << Theme("Clean", "clean"), Theme("Dark", "dark"),
           Theme("Scientific", "scientific"),
           Theme("Presentation", "presentation") >>,
     sizes |->
        << Size("Small", "small", 800, 600),
           Size("Medium", "medium", 1200, 800),
           Size("Large", "large", 1600, 1000),
           Size("Custom", "custom", 1200, 800) >>]

\* the elements of a catalog
Range(s) == {s[i] : i \in DOMAIN s}

-----------------------------------------------------------------------------
(* mock.js: generateMockPythonCode.  The generated script is kept line by   *)
(* line; every interpolation is carried out, so a line is the text the      *)
(* template produces.                                                       *)

\* a variant that takes an empty values array for data
HasValuesTruthy(values) == Truthy(values)

\* values && values.length > 0
HasValues(values) == Truthy(values) /\ LengthPositive(values)

\* theme === 'dark' ? 'dark_background' : 'default'
StyleName(theme) ==
    IF StrictEquals(theme, Str("dark")) THEN "dark_background" ELSE "default"

\* theme === 'dark' ? 'plotly_dark' : 'plotly_white'
TemplateName(theme) ==
    IF StrictEquals(theme, Str("dark")) THEN "plotly_dark" ELSE "plotly_white"

\* mutant: the pixel sizes, undivided
FigureSizeLinePixels(size) ==
    "figure_size = (" \o Interpolate(Get(size, "width")) \o ", "
        \o Interpolate(Get(size, "height")) \o ")"

\* figure_size = (${size.width/100}, ${size.height/100})
FigureSizeLine(size) ==
    "figure_size = (" \o Interpolate(DivideBy100(Get(size, "width"))) \o ", "
        \o Interpolate(DivideBy100(Get(size, "height"))) \o ")"

\* mutant: the rotation is fixed
XticksLineFixed == "plt.xticks(rotation=45)"

\* plt.xticks(rotation=45 if len(rows) > 4 else 0)
XticksLine == "plt.xticks(rotation=45 if len(rows) > 4 else 0)"

\* the lines every script starts with
Preamble(ds, cust) ==
    LET rows == Get(ds, "rows")
        cols == Get(ds, "cols")
        values == Get(ds, "values")
        theme == Get(cust, "theme")
        size == Get(cust, "size")
    IN  << "import matplotlib.pyplot as plt",
           "import seaborn as sns",
           "import plotly.express as px",
           "import pandas as pd",
           "import numpy as np",
           "",
           "# Data setup",
           "rows = " \o JSONstringify(rows),
           "cols = " \o JSONstringify(cols) >>
        \o (IF HasValues(values)
            THEN << "values = " \o JSONstringify(values) >> ELSE << >>)
        \o << "",
              "# Create DataFrame for easier manipulation",
              "df = pd.DataFrame({",
              "    'categories': rows,",
              "    'values': cols" \o (IF HasValues(values) THEN "," ELSE "") >>
        \o (IF HasValues(values) THEN << "    'weights': values" >> ELSE << >>)
        \o << "})",
              "",
              "# Set up the plot style",
              "plt.style.use('" \o StyleName(theme) \o "')",
              FigureSizeLine(size),
              "" >>

LineBody(ds) ==
    << "# Create line chart",
       "plt.figure(figsize=figure_size)",
       "plt.plot(rows, cols, marker='o', linewidth=2.5, markersize=8)",
       "plt.title('" \o Interpolate(Get(ds, "name"))
            \o "', fontsize=16, fontweight='bold', pad=20)",
       "plt.xlabel('Categories', fontsize=12)",
       "plt.ylabel('Values', fontsize=12)",
       "plt.grid(True, alpha=0.3)",
       "plt.tight_layout()",
       "plt.savefig('visualization.png', dpi=300, bbox_inches='tight')",
       "plt.show()" >>

BarBody(ds, cust) ==
    << "# Create bar chart",
       "plt.figure(figsize=figure_size)",
       "bars = plt.bar(rows, cols, color='"
            \o Interpolate(Get(Get(cust, "colors"), "colors").a[1])
            \o "', alpha=0.8, edgecolor='black', linewidth=0.8)",
       "plt.title('" \o Interpolate(Get(ds, "name"))
            \o "', fontsize=16, fontweight='bold', pad=20)",
       "plt.xlabel('Categories', fontsize=12)",
       "plt.ylabel('Values', fontsize=12)",
       XticksLine,
       "",
       "# Add value labels on bars",
       "for bar, value in zip(bars, cols):",
       "    plt.text(bar.get_x() + bar.get_width()/2, bar.get_height() + max(cols)*0.01,",
       "             f'{value:,}', ha='center', va='bottom', fontweight='bold')",
       "",
       "plt.tight_layout()",
       "plt.savefig('visualization.png', dpi=300, bbox_inches='tight')",
       "plt.show()" >>

HeatmapBody(ds, cust) ==
    << "# Create heatmap",
       "plt.figure(figsize=figure_size)",
       "# Reshape data for heatmap if needed",
       "heatmap_data = np.array(cols).reshape(-1, 1) if len(np.array(cols).shape) == 1 else cols",
       "sns.heatmap(heatmap_data, annot=True, cmap='"
            \o Interpolate(Get(Get(cust, "colors"), "value")) \o "', ",
       "           xticklabels=rows[:len(heatmap_data[0])] if len(heatmap_data.shape) > 1 else ['Values'],",
       "           yticklabels=rows, square=True, linewidths=0.5)",
       "plt.title('" \o Interpolate(Get(ds, "name"))
            \o "', fontsize=16, fontweight='bold', pad=20)",
       "plt.tight_layout()",
       "plt.savefig('visualization.png', dpi=300, bbox_inches='tight')",
       "plt.show()" >>

\* a variant whose layout takes the figure size in inches
PlotlyBodyInches(ds, cust) ==
    LET size == Get(cust, "size")
    IN  << "# Create interactive chart with Plotly",
           "import plotly.graph_objects as go",
           "",
           "fig = go.Figure()",
           "fig.update_layout(",
           "    width=" \o Interpolate(DivideBy100(Get(size, "width"))) \o ",",
           "    height=" \o Interpolate(DivideBy100(Get(size, "height"))) \o ",",
           "    hovermode='closest',",
           "    template='" \o TemplateName(Get(cust, "theme")) \o "'",
           ")",
           "",
           "fig.show()" >>

PlotlyBody(ds, cust) ==
    LET palette == Get(Get(cust, "colors"), "colors")
        size == Get(cust, "size")
    IN  << "# Create interactive chart with Plotly",
           "import plotly.graph_objects as go",
           "",
           "fig = go.Figure()",
           "fig.add_trace(go.Scatter(",
           "    x=rows,",
           "    y=cols,",
           "    mode='lines+markers',",
           "    name='" \o Interpolate(Get(ds, "name")) \o "',",
           "    line=dict(width=3, color='" \o Interpolate(palette.a[1]) \o "'),",
           "    marker=dict(size=10, color='" \o Interpolate(palette.a[2]) \o "')",
           "))",
           "",
           "fig.update_layout(",
           "    title={",
           "        'text': '" \o Interpolate(Get(ds, "name")) \o "',",
           "        'x': 0.5,",
           "        'xanchor': 'center',",
           "        'font': {'size': 18, 'family': 'Arial, sans-serif'}",
           "    },",
           "    xaxis_title='Categories',",
           "    yaxis_title='Values',",
           "    width=" \o Interpolate(Get(size, "width")) \o ",",
           "    height=" \o Interpolate(Get(size, "height")) \o ",",
           "    hovermode='closest',",
           "    template='" \o TemplateName(Get(cust, "theme")) \o "'",
           ")",
           "",
           "fig.show()",
           "# To save: fig.write_html(\"visualization.html\")" >>

\* a variant whose fallback saves the way the chart branches do
DefaultBodyStyled(ds) ==
    << "# Basic visualization",
       "plt.figure(figsize=figure_size)",
       "plt.plot(rows, cols)",
       "plt.title('" \o Interpolate(Get(ds, "name")) \o "')",
       "plt.tight_layout()",
       "plt.savefig('visualization.png', dpi=300, bbox_inches='tight')",
       "plt.show()" >>

DefaultBody(ds) ==
    << "# Basic visualization",
       "plt.figure(figsize=figure_size)",
       "plt.plot(rows, cols)",
       "plt.title('" \o Interpolate(Get(ds, "name")) \o "')",
       "plt.savefig('visualization.png')",
       "plt.show()" >>

\* switch (id)
ChartBody(id, ds, cust) ==
    CASE StrictEquals(id, Str("matplotlib_line")) -> LineBody(ds)
      [] StrictEquals(id, Str("matplotlib_bar")) -> BarBody(ds, cust)
      [] StrictEquals(id, Str("seaborn_heatmap")) -> HeatmapBody(ds, cust)
      [] StrictEquals(id, Str("plotly_interactive")) -> PlotlyBody(ds, cust)
      [] OTHER -> DefaultBody(ds)

generateMockPythonCode(chartType, ds, cust) ==
    Text(Preamble(ds, cust) \o ChartBody(Get(chartType, "id"), ds, cust))

\* the script has the line
Contains(code, line) == \E i \in 1..Len(code.lines) : code.lines[i] = line

-----------------------------------------------------------------------------
(* Texts of the JSON text box.  A text is blank (empty or white space       *)
(* only), garbage (JSON.parse throws a SyntaxError) or the serialisation    *)
(* of a JSON value in some layout.                                          *)

EmptyText == [kind |-> "blank", value |-> Undefined, layout |-> "empty"]

SpacesText == [kind |-> "blank", value |-> Undefined, layout |-> "spaces"]

GarbageText == [kind |-> "garbage", value |-> Undefined, layout |-> "typed"]

\* what the user typed for the JSON value v
TypedText(v) == [kind |-> "json", value |-> v, layout |-> "typed"]

\* value.trim(), as a condition
TrimNonEmpty(text) == text.kind # "blank"

\* a thrown Error with its message
Thrown(message) == [threw |-> TRUE, message |-> message]

Returned(v) == [threw |-> FALSE, value |-> v]

\* JSON.parse(jsonString)
JSONparse(text) ==
    CASE text.kind = "json" -> Returned(text.value)
      [] text.kind = "blank" -> Thrown("Unexpected end of JSON input")
      [] OTHER -> Thrown("Unexpected token in JSON")

\* JSON.stringify(currentData, null, 2)
JSONstringifyIndented(v) == [kind |-> "json", value |-> v, layout |-> "indent2"]

-----------------------------------------------------------------------------
(* DataInput.jsx: validateAndParseJson *)

\* a variant without the check for empty arrays
ValidateTryAllowingEmpty(jsonString) ==
    LET p == JSONparse(jsonString)
    IN  IF p.threw THEN p
        ELSE LET parsed == p.value
             IN  IF parsed.t = "null"
                 THEN Thrown("Cannot read properties of null (reading 'rows')")
                 ELSE IF ~Truthy(Get(parsed, "rows")) \/ ~Truthy(Get(parsed, "cols"))
                 THEN Thrown("JSON must contain \"rows\" and \"cols\" arrays")
                 ELSE IF ~IsArray(Get(parsed, "rows")) \/ ~IsArray(Get(parsed, "cols"))
                 THEN Thrown("\"rows\" and \"cols\" must be arrays")
                 ELSE Returned([isValid |-> TRUE, data |-> parsed, error |-> Null])

\* the body of the try block: the value returned, or the Error thrown
ValidateTry(jsonString) ==
    LET p == JSONparse(jsonString)
    IN  IF p.threw THEN p
        ELSE LET parsed == p.value
             IN  IF parsed.t = "null"
                 THEN Thrown("Cannot read properties of null (reading 'rows')")
                 ELSE IF ~Truthy(Get(parsed, "rows")) \/ ~Truthy(Get(parsed, "cols"))
                 THEN Thrown("JSON must contain \"rows\" and \"cols\" arrays")
                 ELSE IF ~IsArray(Get(parsed, "rows")) \/ ~IsArray(Get(parsed, "cols"))
                 THEN Thrown("\"rows\" and \"cols\" must be arrays")
                 ELSE IF Len(Get(parsed, "rows").a) = 0 \/ Len(Get(parsed, "cols").a) = 0
                 THEN Thrown("Arrays cannot be empty")
                 ELSE Returned([isValid |-> TRUE, data |-> parsed, error |-> Null])

\* mutant: the reason is lost
ValidateCatchNoReason(error) ==
    Returned([isValid |-> FALSE, data |-> Null, error |-> Undefined])

\* the catch block
ValidateCatch(error) ==
    Returned([isValid |-> FALSE, data |-> Null, error |-> Str(error.message)])

validateAndParseJson(jsonString) ==
    LET body == ValidateTry(jsonString)
    IN  IF body.threw THEN ValidateCatch(body) ELSE body

\* mutant: rows cut to the length of cols
NormalizedDatasetZipped(data) ==
    LET rows == Get(data, "rows").a
        cols == Get(data, "cols").a
        n == IF Len(rows) < Len(cols) THEN Len(rows) ELSE Len(cols)
    IN  With(With(data, "rows", Arr(SubSeq(rows, 1, n))), "name",
             IF Truthy(Get(data, "name")) THEN Get(data, "name")
             ELSE Str("Custom Dataset"))

\* a variant that names no dataset
NormalizedDatasetUnnamed(data) == data

\* { ...result.data, name: result.data.name || 'Custom Dataset' }
NormalizedDataset(data) ==
    With(data, "name",
         IF Truthy(Get(data, "name")) THEN Get(data, "name")
         ELSE Str("Custom Dataset"))

-----------------------------------------------------------------------------
(* The effects React runs after a render, and what schedules them *)

DataInputEffectId == "DataInput.useEffect"

ChartBuilderEffectId == "ChartBuilder.useEffect"

PreviewPanelEffectId == "PreviewPanel.useEffect"

\* the effects whose dependency is the dataset
DatasetEffects == {DataInputEffectId, ChartBuilderEffectId}

\* visualization?.chartImage
ChartImageOf(v) == IF v.t = "obj" THEN Get(v, "chartImage") ELSE Undefined

\* visualization?.pythonCode
ChartCodeOf(v) == IF v.t = "obj" THEN Get(v, "pythonCode") ELSE Undefined

\* the user can act once the effects of the last render have run
Settled == pending = {}

-----------------------------------------------------------------------------
(* App.js *)

\* mutant: the visualization outlives its dataset
handleDataChangeKeeping(newData) ==
    /\ dataset' = newData
    /\ visualization' = visualization

\* handleDataChange(newData): the new dataset and visualization
handleDataChange(newData) ==
    /\ dataset' = newData
    /\ visualization' = IF ~Truthy(newData) THEN Null ELSE visualization

\* handleVisualizationChange(newVisualization)
handleVisualizationChange(newVisualization) ==
    visualization' = newVisualization

-----------------------------------------------------------------------------
(* DataInput.jsx: the handlers *)

\* toast({ title, description, variant })
Toast(title, description, variant) ==
    [title |-> title, description |-> description, variant |-> variant]

NoToast == Toast("", "", "none")

\* mutant: an invalid edit clears the dataset
handleJsonChangeClearing(value) ==
    /\ Settled
    /\ jsonInput' = value
    /\ IF TrimNonEmpty(value)
       THEN LET result == validateAndParseJson(value).value
            IN  /\ isValidJson' = result.isValid
                /\ IF result.isValid
                   THEN /\ handleDataChange(NormalizedDataset(result.data))
                        /\ pending' = DatasetEffects
                   ELSE /\ handleDataChange(Null)
                        /\ pending' = DatasetEffects
       ELSE UNCHANGED <<isValidJson, dataset, visualization, pending>>
    /\ UNCHANGED <<selectedExample, selectedChart, customization, isLoading,
                   previewImage, inflight, toast, arg, ret>>

handleJsonChange(value) ==
    /\ Settled
    /\ jsonInput' = value
    /\ IF TrimNonEmpty(value)
       THEN LET result == validateAndParseJson(value).value
            IN  /\ isValidJson' = result.isValid
                /\ IF result.isValid
                   THEN /\ handleDataChange(NormalizedDataset(result.data))
                        /\ pending' = DatasetEffects
                   ELSE UNCHANGED <<dataset, visualization, pending>>
       ELSE UNCHANGED <<isValidJson, dataset, visualization, pending>>
    /\ UNCHANGED <<selectedExample, selectedChart, customization, isLoading,
                   previewImage, inflight, toast, arg, ret>>

loadExampleData(exampleKey) ==
    /\ Settled
    /\ exampleKey # "" /\ exampleKey \in DOMAIN mockDatasets
    /\ LET example == mockDatasets[exampleKey]
       IN  /\ selectedExample' = Str(exampleKey)
           /\ jsonInput' = JSONstringifyIndented(example)
           /\ isValidJson' = TRUE
           /\ handleDataChange(example)
           /\ pending' = IF dataset # example THEN DatasetEffects ELSE {}
           /\ toast' = Toast("Example loaded",
                             Interpolate(Get(example, "name"))
                                \o " dataset loaded successfully", "default")
    /\ UNCHANGED <<selectedChart, customization, isLoading, previewImage,
                   inflight, arg, ret>>

clearData ==
    /\ Settled
    /\ jsonInput' = EmptyText
    /\ selectedExample' = Str("")
    /\ isValidJson' = TRUE
    /\ handleDataChange(Null)
    /\ pending' = IF dataset # Null THEN DatasetEffects ELSE {}
    /\ UNCHANGED <<selectedChart, customization, isLoading, previewImage,
                   inflight, toast, arg, ret>>

\* useEffect(() => { if (currentData) setJsonInput(...) }, [currentData])
DataInputEffect ==
    /\ DataInputEffectId \in pending
    /\ pending' = pending \ {DataInputEffectId}
    /\ jsonInput' = IF Truthy(dataset) THEN JSONstringifyIndented(dataset)
                    ELSE jsonInput
    /\ UNCHANGED <<dataset, visualization, selectedExample, isValidJson,
                   selectedChart, customization, isLoading, previewImage,
                   inflight, toast, arg, ret>>

-----------------------------------------------------------------------------
(* ChartBuilder.jsx *)

\* useState({ colors, theme, size, customWidth, customHeight })
InitialCustomization ==
    Obj([colors |-> mockCustomizationOptions.colors[1],
         theme |-> mockCustomizationOptions.themes[1],
         size |-> mockCustomizationOptions.sizes[2],
         customWidth |-> Whole(1200),
         customHeight |-> Whole(800)])

\* the object handed to onVisualizationChange
NewVisualization(chart, ds, cust) ==
    Obj([chartType |-> chart,
         dataset |-> ds,
         customization |-> cust,
         pythonCode |-> generateMockPythonCode(chart, ds, cust)])

\* the builder is rendered only with a dataset
BuilderShown == Truthy(dataset)

\* the customization controls are rendered only with a chart selected
CustomizationShown == BuilderShown /\ Truthy(selectedChart)

\* the two sliders are rendered only for the custom size
SlidersShown ==
    /\ CustomizationShown
    /\ StrictEquals(Get(Get(customization, "size"), "value"), Str("custom"))

handleChartSelect(chartType) ==
    /\ Settled
    /\ BuilderShown
    /\ selectedChart' = chartType
    /\ pending' = IF selectedChart # chartType THEN {ChartBuilderEffectId} ELSE {}
    /\ UNCHANGED <<dataset, visualization, jsonInput, selectedExample,
                   isValidJson, customization, isLoading, previewImage,
                   inflight, toast, arg, ret>>

\* setCustomization(prev => ({ ...prev, [key]: value }))
updateCustomization(key, value) ==
    /\ Settled
    /\ customization' = With(customization, key, value)
    /\ pending' = {ChartBuilderEffectId}
    /\ UNCHANGED <<dataset, visualization, jsonInput, selectedExample,
                   isValidJson, selectedChart, isLoading, previewImage,
                   inflight, toast, arg, ret>>

\* a colour scheme button
SelectColors(colorScheme) ==
    /\ CustomizationShown
    /\ updateCustomization("colors", colorScheme)

\* the theme select: themes.find(t => t.value === value)
SelectTheme(theme) ==
    /\ CustomizationShown
    /\ updateCustomization("theme", theme)

\* the size select: sizes.find(s => s.value === value)
SelectSize(size) ==
    /\ CustomizationShown
    /\ updateCustomization("size", size)

\* the width slider
SlideWidth(value) ==
    /\ SlidersShown
    /\ updateCustomization("customWidth", Whole(value))

\* the height slider
SlideHeight(value) ==
    /\ SlidersShown
    /\ updateCustomization("customHeight", Whole(value))

\* useEffect(() => {...}, [selectedChart, dataset, customization])
ChartBuilderEffect ==
    /\ ChartBuilderEffectId \in pending
    /\ IF Truthy(selectedChart) /\ Truthy(dataset)
       THEN LET new == NewVisualization(selectedChart, dataset, customization)
            IN  /\ handleVisualizationChange(new)
                /\ pending' = (pending \ {ChartBuilderEffectId}) \cup
                        (IF ChartImageOf(new) # ChartImageOf(visualization)
                         THEN {PreviewPanelEffectId} ELSE {})
       ELSE /\ UNCHANGED visualization
            /\ pending' = pending \ {ChartBuilderEffectId}
    /\ UNCHANGED <<dataset, jsonInput, selectedExample, isValidJson,
                   selectedChart, customization, isLoading, previewImage,
                   inflight, toast, arg, ret>>

-----------------------------------------------------------------------------
(* PreviewPanel.jsx *)

\* the image the execution service renders for a request
ImageFor(request) == [t |-> "image", code |-> request.code]

\* { code: visualization.pythonCode, dataset: visualization.dataset }
ExecuteRequest(v) ==
    [code |-> Get(v, "pythonCode"), dataset |-> Get(v, "dataset")]

\* how axios.post can settle for a request: it rejects, or resolves with
\* response.data
Outcomes(request) ==
    { Thrown("Network Error"),
      Returned(Obj([success |-> Bool(FALSE),
                    error_message |-> Str("NameError: name 'x' is not defined")])),
      Returned(Obj([success |-> Bool(FALSE)])),
      Returned(Obj([success |-> Bool(FALSE), chart_image |-> ImageFor(request)])),
      Returned(Obj([success |-> Bool(TRUE)])),
      Returned(Obj([success |-> Bool(TRUE), chart_image |-> Str("")])),
      Returned(Obj([success |-> Bool(TRUE), chart_image |-> ImageFor(request)])) }

\* the panel renders its buttons only with a visualization
PanelShown == Truthy(visualization)

\* mutant: the button is never disabled
ExecuteButtonNeverDisabled == TRUE

\* <Button onClick={executeCode} disabled={isLoading}>
ExecuteButtonEnabled == ~isLoading

\* the sequence without its i-th element
RemoveAt(seq, i) == SubSeq(seq, 1, i - 1) \o SubSeq(seq, i + 1, Len(seq))

\* executeCode, up to the await
executeCode ==
    /\ Settled
    /\ PanelShown
    /\ ExecuteButtonEnabled
    /\ IF ~Truthy(ChartCodeOf(visualization))
       THEN UNCHANGED <<isLoading, inflight>>
       ELSE /\ isLoading' = TRUE
            /\ inflight' = Append(inflight, ExecuteRequest(visualization))
    /\ UNCHANGED <<dataset, visualization, jsonInput, selectedExample,
                   isValidJson, selectedChart, customization, previewImage,
                   toast, pending, arg, ret>>

\* mutant: a failure clears the preview image
settleExecuteClearing(i, outcome) ==
    /\ i \in 1..Len(inflight)
    /\ outcome \in Outcomes(inflight[i])
    /\ inflight' = RemoveAt(inflight, i)
    /\ IF outcome.threw
       THEN /\ toast' = Toast("Error", outcome.message, "destructive")
            /\ previewImage' = Null
       ELSE LET data == outcome.value
            IN  IF Truthy(Get(data, "success")) /\ Truthy(Get(data, "chart_image"))
                THEN /\ previewImage' = Get(data, "chart_image")
                     /\ toast' = Toast("Execution successful",
                                       "Visualization updated", "default")
                ELSE /\ toast' = Toast("Error",
                            IF Truthy(Get(data, "error_message"))
                            THEN Get(data, "error_message").s
                            ELSE "Execution failed", "destructive")
                     /\ previewImage' = Null
    /\ isLoading' = FALSE
    /\ UNCHANGED <<dataset, visualization, jsonInput, selectedExample,
                   isValidJson, selectedChart, customization, pending, arg, ret>>

\* a variant without the finally block: a rejected call leaves the flag set
settleExecuteNoFinally(i, outcome) ==
    /\ i \in 1..Len(inflight)
    /\ outcome \in Outcomes(inflight[i])
    /\ inflight' = RemoveAt(inflight, i)
    /\ IF outcome.threw
       THEN /\ toast' = Toast("Error", outcome.message, "destructive")
            /\ UNCHANGED <<previewImage, isLoading>>
       ELSE LET data == outcome.value
            IN  /\ IF Truthy(Get(data, "success")) /\ Truthy(Get(data, "chart_image"))
                   THEN /\ previewImage' = Get(data, "chart_image")
                        /\ toast' = Toast("Execution successful",
                                          "Visualization updated", "default")
                   ELSE /\ toast' = Toast("Error",
                               IF Truthy(Get(data, "error_message"))
                               THEN Get(data, "error_message").s
                               ELSE "Execution failed", "destructive")
                        /\ UNCHANGED previewImage
                /\ isLoading' = FALSE
    /\ UNCHANGED <<dataset, visualization, jsonInput, selectedExample,
                   isValidJson, selectedChart, customization, pending, arg, ret>>

\* executeCode, from the await on: the i-th call in flight settles
settleExecute(i, outcome) ==
    /\ i \in 1..Len(inflight)
    /\ outcome \in Outcomes(inflight[i])
    /\ inflight' = RemoveAt(inflight, i)
    /\ IF outcome.threw
       THEN /\ toast' = Toast("Error", outcome.message, "destructive")
            /\ UNCHANGED previewImage
       ELSE LET data == outcome.value
            IN  IF Truthy(Get(data, "success")) /\ Truthy(Get(data, "chart_image"))
                THEN /\ previewImage' = Get(data, "chart_image")
                     /\ toast' = Toast("Execution successful",
                                       "Visualization updated", "default")
                ELSE /\ toast' = Toast("Error",
                            IF Truthy(Get(data, "error_message"))
                            THEN Get(data, "error_message").s
                            ELSE "Execution failed", "destructive")
                     /\ UNCHANGED previewImage
    /\ isLoading' = FALSE
    /\ UNCHANGED <<dataset, visualization, jsonInput, selectedExample,
                   isValidJson, selectedChart, customization, pending, arg, ret>>

\* useEffect(() => {...}, [visualization?.chartImage])
PreviewPanelEffect ==
    /\ PreviewPanelEffectId \in pending
    /\ pending' = pending \ {PreviewPanelEffectId}
    /\ previewImage' = IF Truthy(ChartImageOf(visualization))
                       THEN ChartImageOf(visualization) ELSE previewImage
    /\ UNCHANGED <<dataset, visualization, jsonInput, selectedExample,
                   isValidJson, selectedChart, customization, isLoading,
                   inflight, toast, arg, ret>>

\* what the preview area shows: an image, or the loading placeholder (Null)
DisplayedImage ==
    IF ~Truthy(previewImage) \/ isLoading THEN Null ELSE previewImage

-----------------------------------------------------------------------------
(* Inputs *)

\* the longest rows array typed
MaxRows == 5

\* the longest cols array typed
MaxCols == 2

\* the slider stops tried, counted from the slider's minimum
MaxSlide == 0

\* the calls in flight the model follows
MaxInFlight == 2

LabelPool == <<"A", "B", "C", "D", "E", "F", "G", "H">>

\* ["A", "B", ...] of length n
Labels(n) == Arr([i \in 1..n |-> Str(LabelPool[i])])

\* [1, 2, ...] of length n
Numbers(n) == Arr([i \in 1..n |-> Whole(i)])

\* a field that is no array: absent (Undefined), falsy or truthy
NonArrays ==
    { Undefined, Null, Bool(FALSE), Bool(TRUE), Whole(0), Whole(7), Str(""),
      Str("abc"), Obj([k |-> Str("v")]) }

RowsSamples == NonArrays \cup {Labels(n) : n \in 0..MaxRows}

ColsSamples == NonArrays \cup {Numbers(n) : n \in 0..MaxCols}

NameSamples == {Undefined, Null, Str(""), Str("T")}

ValuesSamples == {Undefined, Arr(<< >>), Arr(<<Num(10), Num(25)>>)}

\* the JSON object with the fields given; Undefined stands for an absent key
JsonObject(name, rows, cols, values) ==
    LET all == [name |-> name, rows |-> rows, cols |-> cols, values |-> values]
        present == {k \in DOMAIN all : all[k] # Undefined}
    IN  Obj([k \in present |-> all[k]])

ObjectSamples ==
    { JsonObject(n, r, c, v) :
        n \in NameSamples, r \in RowsSamples, c \in ColsSamples,
        v \in ValuesSamples }

\* JSON values that are no object
TopLevelSamples == {Null, Whole(7), Str("abc"), Bool(TRUE), Labels(2)}

TextSamples ==
    {EmptyText, SpacesText, GarbageText}
        \cup {TypedText(v) : v \in ObjectSamples \cup TopLevelSamples}

\* the datasets the application can hold: validated edits and the examples
DatasetSamples ==
    { NormalizedDataset(validateAndParseJson(t).value.data) :
        t \in {x \in TextSamples : validateAndParseJson(x).value.isValid} }
        \cup Range(mockDatasets)

\* a chart id the catalog does not hold
UnknownChart == ChartType("nonexistent_chart", "Unknown", "matplotlib", "basic")

CustomizationSamples ==
    { Obj([colors |-> c, theme |-> t, size |-> z,
           customWidth |-> Whole(1200), customHeight |-> Whole(800)]) :
        c \in Range(mockCustomizationOptions.colors),
        t \in Range(mockCustomizationOptions.themes),
        z \in Range(mockCustomizationOptions.sizes) }

GenerateInputs ==
    [chartType : Range(mockChartTypes) \cup {UnknownChart},
     dataset : DatasetSamples,
     customization : CustomizationSamples]

\* the slider of the custom width: min 400, max 2000, step 50
SliderMinWidth == 400

SliderMaxWidth == 2000

\* the slider of the custom height: min 300, max 1500, step 50
SliderMinHeight == 300

SliderMaxHeight == 1500

SliderStep == 50

SliderWidths ==
    {w \in {SliderMinWidth + SliderStep * k : k \in 0..MaxSlide} :
        w <= SliderMaxWidth}

SliderHeights ==
    {h \in {SliderMinHeight + SliderStep * k : k \in 0..MaxSlide} :
        h <= SliderMaxHeight}

\* the edits tried in the application: one valid (no name, rows and cols of
\* different lengths), two invalid, one blank
ValidEdit == TypedText(JsonObject(Undefined, Labels(2), Numbers(1), Undefined))

AppTexts ==
    { ValidEdit, GarbageText, SpacesText,
      TypedText(JsonObject(Str("T"), Labels(0), Numbers(1), Undefined)) }

\* the edits tried against the data input alone: every sample of rows with
\* one cols array, every sample of cols with one rows array, both unnamed,
\* a named text with values, and the texts that are no object
DataTexts ==
    {EmptyText, SpacesText, GarbageText}
        \cup {TypedText(JsonObject(Undefined, r, Numbers(1), Undefined)) :
                r \in RowsSamples}
        \cup {TypedText(JsonObject(Undefined, Labels(1), c, Undefined)) :
                c \in ColsSamples}
        \cup {TypedText(JsonObject(Str("T"), Labels(1), Numbers(1),
                                   Arr(<<Num(10)>>)))}
        \cup {TypedText(v) : v \in TopLevelSamples}

-----------------------------------------------------------------------------
(* Specifications *)

\* the application after construction, before the effects of the first render
AppInit ==
    /\ dataset = Null
    /\ visualization = Null
    /\ jsonInput = EmptyText
    /\ selectedExample = Str("")
    /\ isValidJson = TRUE
    /\ selectedChart = Null
    /\ customization = InitialCustomization
    /\ isLoading = FALSE
    /\ previewImage = Null
    /\ inflight = << >>
    /\ toast = NoToast
    /\ pending = {DataInputEffectId, ChartBuilderEffectId, PreviewPanelEffectId}

\* The whole application, with one example, two charts and two themes.
Init == AppInit /\ arg = Null /\ ret = Null

Next ==
    \/ \E value \in AppTexts : handleJsonChange(value)
    \/ loadExampleData("customerSegments")
    \/ clearData
    \/ \E i \in {1, 6} : handleChartSelect(mockChartTypes[i])
    \/ \E i \in {1, 2} : SelectTheme(mockCustomizationOptions.themes[i])
    \/ DataInputEffect
    \/ ChartBuilderEffect
    \/ PreviewPanelEffect
    \/ Len(inflight) < MaxInFlight /\ executeCode
    \/ \E i \in 1..Len(inflight) :
            \E outcome \in Outcomes(inflight[i]) : settleExecute(i, outcome)

Spec == Init /\ [][Next]_vars

\* a call in flight settles, one way or another
Settle ==
    \E i \in 1..Len(inflight) :
        \E outcome \in Outcomes(inflight[i]) : settleExecute(i, outcome)

\* The whole application with a remote service that answers or fails every
\* call in the end: the promise of axios.post does not stay pending.
SpecLive == Init /\ [][Next]_vars /\ WF_vars(Settle)

\* The data input and the chart builder, over the whole catalogs of charts,
\* colour schemes, themes and sizes.
NextBuilder ==
    \/ handleJsonChange(ValidEdit)
    \/ loadExampleData("salesData")
    \/ clearData
    \/ \E chart \in Range(mockChartTypes) : handleChartSelect(chart)
    \/ \E c \in Range(mockCustomizationOptions.colors) : SelectColors(c)
    \/ \E t \in Range(mockCustomizationOptions.themes) : SelectTheme(t)
    \/ \E z \in Range(mockCustomizationOptions.sizes) : SelectSize(z)
    \/ \E w \in SliderWidths : SlideWidth(w)
    \/ \E h \in SliderHeights : SlideHeight(h)
    \/ DataInputEffect
    \/ ChartBuilderEffect
    \/ PreviewPanelEffect

SpecBuilder == Init /\ [][NextBuilder]_vars

\* The data input alone, no chart selected: any sequence of edits, example
\* loads and clears.
NextData ==
    \/ \E value \in DataTexts : handleJsonChange(value)
    \/ \E exampleKey \in DOMAIN mockDatasets : loadExampleData(exampleKey)
    \/ clearData
    \/ DataInputEffect
    \/ ChartBuilderEffect
    \/ PreviewPanelEffect

SpecData == Init /\ [][NextData]_vars

\* One text edit, for every sample text: the validator alone, and the edit
\* handler with the effects that follow it.
InitInput == AppInit /\ arg \in TextSamples /\ ret = Null

CallValidate ==
    /\ ret = Null
    /\ ret' = validateAndParseJson(arg)
    /\ UNCHANGED <<arg>>
    /\ UNCHANGED appVars

EditOnce ==
    /\ jsonInput = EmptyText
    /\ handleJsonChange(arg)

NextInput ==
    \/ CallValidate
    \/ EditOnce
    \/ DataInputEffect
    \/ ChartBuilderEffect
    \/ PreviewPanelEffect

SpecInput == InitInput /\ [][NextInput]_vars

\* One call of the generator, for every sample input.
InitGenerate == AppInit /\ arg \in GenerateInputs /\ ret = Null

CallGenerate ==
    /\ ret = Null
    /\ ret' = generateMockPythonCode(arg.chartType, arg.dataset, arg.customization)
    /\ UNCHANGED <<arg>>
    /\ UNCHANGED appVars

NextGenerate == CallGenerate

SpecGenerate == InitGenerate /\ [][NextGenerate]_vars

-----------------------------------------------------------------------------
(* Claims C1-C3: the validator and the text-edit handler *)

\* the text parses to an object whose rows and cols are non-empty arrays
WellFormed(text) ==
    /\ text.kind = "json"
    /\ text.value.t = "obj"
    /\ IsArray(Get(text.value, "rows")) /\ Len(Get(text.value, "rows").a) > 0
    /\ IsArray(Get(text.value, "cols")) /\ Len(Get(text.value, "cols").a) > 0

\* the one edit of SpecInput has been made
Edited == jsonInput # EmptyText

\* C1: for every text that parses to an object with non-empty rows and cols
\* arrays, validateAndParseJson returns isValid = true with the parsed rows
\* and cols, and the dataset the edit hands to the application has exactly
\* the input's rows and cols, also when their lengths differ.
C1_ValidRoundTrip ==
    WellFormed(arg) =>
        /\ ret # Null =>
              /\ ~ret.threw
              /\ ret.value.isValid
              /\ Get(ret.value.data, "rows") = Get(arg.value, "rows")
              /\ Get(ret.value.data, "cols") = Get(arg.value, "cols")
        /\ Edited =>
              /\ isValidJson
              /\ Get(dataset, "rows") = Get(arg.value, "rows")
              /\ Get(dataset, "cols") = Get(arg.value, "cols")

\* C1 witness: an accepted edit whose rows and cols differ in length
C1_Witness ==
    /\ WellFormed(arg)
    /\ Len(Get(arg.value, "rows").a) > Len(Get(arg.value, "cols").a)
    /\ ret # Null
    /\ Edited
    /\ Settled

\* C2: for every text that cannot be parsed, or that lacks rows or cols, or
\* whose rows or cols is no array or an empty array, validateAndParseJson
\* returns (does not throw) isValid = false, data = null and a non-empty
\* reason.
C2_InvalidRejected ==
    (~WellFormed(arg) /\ ret # Null) =>
        /\ ~ret.threw
        /\ ret.value.isValid = FALSE
        /\ ret.value.data = Null
        /\ ret.value.error.t = "str"
        /\ ret.value.error.s # ""

\* C2 witness: the validator has returned for a text whose rows is an empty
\* array
C2_Witness ==
    /\ ret # Null
    /\ arg.kind = "json"
    /\ Get(arg.value, "rows") = Arr(<< >>)
    /\ IsArray(Get(arg.value, "cols"))

\* C3: a non-empty edit that fails validation changes nothing but the text
\* box and the invalid-input flag: the dataset and the visualization stay,
\* and so does every other piece of state.
C3_InvalidEditRetainsState ==
    [][\A value \in AppTexts :
          (/\ TrimNonEmpty(value)
           /\ ~WellFormed(value)
           /\ handleJsonChange(value))
          => /\ dataset' = dataset
             /\ visualization' = visualization
             /\ isValidJson' = FALSE
             /\ jsonInput' = value
             /\ UNCHANGED <<selectedExample, selectedChart, customization,
                            isLoading, previewImage, inflight, toast, pending>>
      ]_vars

\* C3 witness: an invalid text in the box, the earlier dataset and
\* visualization still in place
C3_Witness ==
    /\ jsonInput = GarbageText
    /\ ~isValidJson
    /\ Truthy(dataset)
    /\ Truthy(visualization)

-----------------------------------------------------------------------------
(* Claims C4-C6: the application state and the preview panel *)

\* C4: once the effects have run, the visualization is null when there is
\* no dataset or no chart selected, and otherwise it is exactly the record
\* of the selected chart, the current dataset, the current customization and
\* the script generated from the three; nothing of an earlier visualization
\* is kept.
C4_VisualizationRecomputed ==
    Settled =>
        visualization =
            IF ~Truthy(dataset) \/ ~Truthy(selectedChart) THEN Null
            ELSE Obj([chartType |-> selectedChart,
                      dataset |-> dataset,
                      customization |-> customization,
                      pythonCode |-> generateMockPythonCode(
                            selectedChart, dataset, customization)])

\* C4 witness: a visualization regenerated for an edited dataset under a
\* changed customization
C4_Witness ==
    /\ Settled
    /\ Truthy(visualization)
    /\ Get(dataset, "name") = Str("Custom Dataset")
    /\ Get(customization, "theme") # Get(InitialCustomization, "theme")
    /\ Get(customization, "colors") # Get(InitialCustomization, "colors")

\* C5 as stated: while a call is in flight, and the panel is shown, a second
\* execute can be submitted.
C5_SecondSubmissionAllowed ==
    (Len(inflight) = 1 /\ Settled /\ PanelShown) => ENABLED executeCode

\* C5 as amended: at most one call is in flight, and the loading flag is set
\* exactly while it is; the response of that call, when it has success = true
\* and a chart image, becomes the preview image.
C5_OneCallInFlight ==
    /\ [](Len(inflight) <= 1 /\ (isLoading <=> Len(inflight) = 1))
    /\ [][\A i \in 1..Len(inflight) :
            \A outcome \in Outcomes(inflight[i]) :
                (/\ settleExecute(i, outcome)
                 /\ outcome = Returned(Obj([success |-> Bool(TRUE),
                        chart_image |-> ImageFor(inflight[i])])))
                => previewImage' = ImageFor(inflight[i])
        ]_vars

\* C5 witness: a call in flight, the panel shown, an earlier image held
C5_Witness ==
    /\ Len(inflight) = 1
    /\ Settled
    /\ PanelShown
    /\ Truthy(previewImage)

\* the call failed: it threw, or success is not true, or no image came
FailedOutcome(outcome) ==
    \/ outcome.threw
    \/ Get(outcome.value, "success") # Bool(TRUE)
    \/ Get(outcome.value, "chart_image") \in {Undefined, Str("")}

\* C6: a failed execute call raises a destructive "Error" notification with
\* a description and leaves the preview image, the visualization and the
\* dataset as they were; the preview image changes only when a call settles
\* with success = true and a chart image, and then to that image.
C6_FailedExecuteKeepsState ==
    /\ [][\A i \in 1..Len(inflight) :
            \A outcome \in Outcomes(inflight[i]) :
                (settleExecute(i, outcome) /\ FailedOutcome(outcome))
                => /\ toast'.title = "Error"
                   /\ toast'.variant = "destructive"
                   /\ toast'.description # ""
                   /\ previewImage' = previewImage
                   /\ visualization' = visualization
                   /\ dataset' = dataset
        ]_vars
    /\ [][previewImage' # previewImage =>
            \E i \in 1..Len(inflight) :
                \E outcome \in Outcomes(inflight[i]) :
                    /\ ~FailedOutcome(outcome)
                    /\ inflight' = RemoveAt(inflight, i)
                    /\ previewImage' = Get(outcome.value, "chart_image")
        ]_vars

\* C6 witness: an error notification raised while an earlier image is kept
C6_Witness ==
    /\ toast.variant = "destructive"
    /\ Truthy(previewImage)
    /\ Truthy(visualization)
    /\ ~isLoading

-----------------------------------------------------------------------------
(* Claims C7-C10: the generated script *)

\* the id of the chart of the call
ArgChartId == Get(arg.chartType, "id")

\* the call of SpecGenerate has returned
Generated == ret # Null

\* C7 as stated: the style follows the theme: 'dark_background' and
\* 'plotly_dark' for the Dark theme of the catalog, 'default' and
\* 'plotly_white' for every other theme.
C7_StyleFollowsTheme ==
    Generated =>
        LET dark == Get(Get(arg.customization, "theme"), "value") = Str("dark")
        IN  /\ Contains(ret, "plt.style.use('"
                    \o (IF dark THEN "dark_background" ELSE "default") \o "')")
            /\ ArgChartId = Str("plotly_interactive") =>
                    Contains(ret, "    template='"
                        \o (IF dark THEN "plotly_dark" ELSE "plotly_white") \o "'")

\* C8 as stated: with the custom size selected, the sizes in the regenerated
\* script are the custom width and height of the sliders.
C8_CustomSizeInScript ==
    (/\ Settled
     /\ Truthy(visualization)
     /\ Get(Get(customization, "size"), "value") = Str("custom"))
    => LET code == Get(visualization, "pythonCode")
           w == Get(customization, "customWidth")
           h == Get(customization, "customHeight")
       IN  /\ Contains(code, "figure_size = (" \o NumberToString(w.h \div 100)
                    \o ", " \o NumberToString(h.h \div 100) \o ")")
           /\ Get(selectedChart, "id") = Str("plotly_interactive") =>
                /\ Contains(code, "    width=" \o NumberToString(w.h) \o ",")
                /\ Contains(code, "    height=" \o NumberToString(h.h) \o ",")

\* the number of rows of the dataset of the call
ArgRowCount == Len(Get(arg.dataset, "rows").a)

\* C9 as stated: for matplotlib_bar the output has a tick rotation of 45
\* when the dataset has more than 4 rows and of 0 otherwise.
C9_RotationByRowCount ==
    (Generated /\ ArgChartId = Str("matplotlib_bar")) =>
        IF ArgRowCount > 4
        THEN Contains(ret, "plt.xticks(rotation=45)")
        ELSE Contains(ret, "plt.xticks(rotation=0)")

\* C9 as amended: for matplotlib_bar the output has, whatever the number of
\* rows, the one line that leaves the choice to the script:
\* rotation=45 if len(rows) > 4 else 0; it has neither a bare rotation=45
\* nor a bare rotation=0.
C9_RotationLeftToScript ==
    (Generated /\ ArgChartId = Str("matplotlib_bar")) =>
        /\ Contains(ret, "plt.xticks(rotation=45 if len(rows) > 4 else 0)")
        /\ ~Contains(ret, "plt.xticks(rotation=45)")
        /\ ~Contains(ret, "plt.xticks(rotation=0)")

\* C9 witness: a bar chart generated for three categories
C9_Witness ==
    /\ Generated
    /\ ArgChartId = Str("matplotlib_bar")
    /\ ArgRowCount = 3

\* the input of the end-to-end example
C10_Input ==
    [chartType |-> mockChartTypes[1],
     dataset |-> Obj([name |-> Str("T"),
                      rows |-> Arr(<<Str("A"), Str("B")>>),
                      cols |-> Arr(<<Whole(1), Whole(2)>>)]),
     customization |-> Obj([colors |-> mockCustomizationOptions.colors[1],
                            theme |-> mockCustomizationOptions.themes[1],
                            size |-> mockCustomizationOptions.sizes[2],
                            customWidth |-> Whole(1200),
                            customHeight |-> Whole(800)])]

\* C10 as stated: the script of the example has figsize=figure_size with
\* figure_size bound to (12.0, 8.0), plt.style.use('default') and the
\* title 'T'.
C10_ExampleWithDecimals ==
    (Generated /\ arg = C10_Input) =>
        /\ Contains(ret, "plt.figure(figsize=figure_size)")
        /\ Contains(ret, "figure_size = (12.0, 8.0)")
        /\ Contains(ret, "plt.style.use('default')")
        /\ Contains(ret, "plt.title('T', fontsize=16, fontweight='bold', pad=20)")

\* C10 as amended: the script of the example has figsize=figure_size with
\* figure_size bound to (12, 8), the way JavaScript prints 1200/100 and
\* 800/100, plt.style.use('default') and the title 'T'.
C10_ExampleScript ==
    (Generated /\ arg = C10_Input) =>
        /\ Contains(ret, "plt.figure(figsize=figure_size)")
        /\ Contains(ret, "figure_size = (12, 8)")
        /\ Contains(ret, "plt.style.use('default')")
        /\ Contains(ret, "plt.title('T', fontsize=16, fontweight='bold', pad=20)")

\* C10 witness: the example has been generated
C10_Witness == Generated /\ arg = C10_Input

-----------------------------------------------------------------------------
(* Claims C11-C19: the fallback, the dataset handed on, the script *)

\* the last n lines of the script
LastLines(code, n) ==
    SubSeq(code.lines, Len(code.lines) - n + 1, Len(code.lines))

\* the first n lines of the script
FirstLines(code, n) == SubSeq(code.lines, 1, n)

\* the body of the default branch, as the source has it
PlainBody(name) ==
    << "# Basic visualization",
       "plt.figure(figsize=figure_size)",
       "plt.plot(rows, cols)",
       "plt.title('" \o name \o "')",
       "plt.savefig('visualization.png')",
       "plt.show()" >>

\* C11: for a chart id the generator does not know ("nonexistent_chart") the
\* call returns a script: the common preamble (imports, data setup, data
\* frame, style, figure size) followed by exactly the body of the default
\* branch, a plain plot with a title and a savefig that take nothing from
\* the customization.
C11_UnknownChartFallsBack ==
    (Generated /\ ArgChartId = Str("nonexistent_chart")) =>
        LET n == Len(ret.lines)
        IN  /\ ret.t = "text"
            /\ n \in {26, 28}
            /\ FirstLines(ret, 7) =
                    << "import matplotlib.pyplot as plt",
                       "import seaborn as sns",
                       "import plotly.express as px",
                       "import pandas as pd",
                       "import numpy as np",
                       "",
                       "# Data setup" >>
            /\ ret.lines[n - 6] = ""
            /\ Contains(ret, "df = pd.DataFrame({")
            /\ Contains(ret, "plt.style.use('default')")
            /\ LastLines(ret, 6) = PlainBody(Get(arg.dataset, "name").s)

\* C11 witness: the script of the unknown chart for a dataset with values
\* under a customization other than the initial one
C11_Witness ==
    /\ Generated
    /\ ArgChartId = Str("nonexistent_chart")
    /\ Len(ret.lines) = 28
    /\ Get(arg.customization, "colors") = mockCustomizationOptions.colors[3]
    /\ Get(arg.customization, "size") = mockCustomizationOptions.sizes[3]

\* the name of the parsed input, undefined when it has none
ArgName == Get(arg.value, "name")

\* the dataset has the fields of the parsed input other than name, as they
\* are, and no field besides them and name
OtherFieldsPassed ==
    /\ DOMAIN dataset.f = DOMAIN arg.value.f \cup {"name"}
    /\ \A k \in DOMAIN arg.value.f \ {"name"} : dataset.f[k] = arg.value.f[k]

\* C13 as stated: after an accepted edit the name of the dataset is the
\* name of the input when the input has one and "Custom Dataset" when it
\* has none, and every other field is the input's.
C13_NameWhenPresent ==
    (Edited /\ WellFormed(arg)) =>
        /\ Get(dataset, "name") =
                IF "name" \in DOMAIN arg.value.f THEN ArgName
                ELSE Str("Custom Dataset")
        /\ OtherFieldsPassed

\* C13 as amended: after an accepted edit the name of the dataset is the
\* name of the input when that is a non-empty string, and "Custom Dataset"
\* when the input has no name or a name that JavaScript takes for false
\* (null, the empty string); every other field is the input's.
C13_NameWhenTruthy ==
    (Edited /\ WellFormed(arg)) =>
        /\ Get(dataset, "name") =
                IF ArgName \in {Undefined, Null, Str("")}
                THEN Str("Custom Dataset")
                ELSE ArgName
        /\ OtherFieldsPassed

\* C13 witness: an accepted edit whose name is the empty string and which
\* has values
C13_Witness ==
    /\ Edited
    /\ WellFormed(arg)
    /\ ArgName = Str("")
    /\ Get(arg.value, "values") # Undefined
    /\ Get(dataset, "name") = Str("Custom Dataset")

\* the input has the field and it is no array
NoArray(k) == Get(arg.value, k) # Undefined /\ ~IsArray(Get(arg.value, k))

\* C15 as stated: the reason returned is the one of the condition that
\* failed: a parse error for a text that cannot be parsed, the missing-field
\* reason when rows or cols is absent, the not-an-array reason when both are
\* there and one is no array, whatever else it is, and the empty-sequence
\* reason when both are arrays and one is empty.
C15_OwnReason ==
    (ret # Null /\ ~WellFormed(arg)) =>
        IF arg.kind # "json"
        THEN ret.value.error \in {Str("Unexpected end of JSON input"),
                                  Str("Unexpected token in JSON")}
        ELSE IF Get(arg.value, "rows") = Undefined
                \/ Get(arg.value, "cols") = Undefined
        THEN ret.value.error =
                Str("JSON must contain \"rows\" and \"cols\" arrays")
        ELSE IF NoArray("rows") \/ NoArray("cols")
        THEN ret.value.error = Str("\"rows\" and \"cols\" must be arrays")
        ELSE ret.value.error = Str("Arrays cannot be empty")

\* C16: after any sequence of edits, example loads and clears the dataset
\* is null or an object whose rows and cols are both arrays with at least
\* one element.
C16_DatasetNullOrNonEmpty ==
    \/ dataset = Null
    \/ /\ dataset.t = "obj"
       /\ IsArray(Get(dataset, "rows")) /\ Len(Get(dataset, "rows").a) >= 1
       /\ IsArray(Get(dataset, "cols")) /\ Len(Get(dataset, "cols").a) >= 1

\* C16 witness: an example was loaded, then an edit with an empty rows
\* array was refused, and the dataset of the example is still held
C16_Witness ==
    /\ selectedExample # Str("")
    /\ ~isValidJson
    /\ jsonInput.kind = "json"
    /\ Get(jsonInput.value, "rows") = Arr(<< >>)
    /\ IsArray(Get(jsonInput.value, "cols"))
    /\ dataset \in Range(mockDatasets)

\* the size of the customization of the call
ArgSize == Get(arg.customization, "size")

\* C14: for plotly_interactive the layout of the output has the width and
\* the height of the selected size, in pixels and undivided: width=800 and
\* height=600 for Small, 1200 and 800 for Medium and for Custom, 1600 and
\* 1000 for Large.
C14_PlotlyLayoutSize ==
    (Generated /\ ArgChartId = Str("plotly_interactive")) =>
        /\ Contains(ret, "    width="
                \o ToString(Get(ArgSize, "width").h \div 100) \o ",")
        /\ Contains(ret, "    height="
                \o ToString(Get(ArgSize, "height").h \div 100) \o ",")
        /\ \A z \in Range(mockCustomizationOptions.sizes) :
                /\ Contains(ret, "    width="
                        \o ToString(Get(z, "width").h \div 100) \o ",")
                    => Get(z, "width") = Get(ArgSize, "width")
                /\ Contains(ret, "    height="
                        \o ToString(Get(z, "height").h \div 100) \o ",")
                    => Get(z, "height") = Get(ArgSize, "height")

\* C14 witness: an interactive chart generated for the Large size
C14_Witness ==
    /\ Generated
    /\ ArgChartId = Str("plotly_interactive")
    /\ Get(ArgSize, "value") = Str("large")
    /\ Contains(ret, "    width=1600,")
    /\ Contains(ret, "    height=1000,")

\* the values of the dataset of the call
ArgValues == Get(arg.dataset, "values")

\* the dataset of the call has a values array with an element
ValuesGiven == ArgValues.t = "arr" /\ Len(ArgValues.a) > 0

\* the lines that bind values to one of the arrays of the sample datasets
ValuesBindings ==
    { "values = " \o JSONstringify(Get(d, "values")) :
        d \in {x \in DatasetSamples : Get(x, "values").t = "arr"} }

\* C17: the script binds values exactly when the dataset has a non-empty
\* values array, to that array, and the data frame has the weights column
\* that refers to values under the same condition; the line before it ends
\* in a comma exactly then.  So values is never referred to unbound.
C17_ValuesBoundIffReferenced ==
    Generated =>
        /\ (\E line \in ValuesBindings : Contains(ret, line)) <=> ValuesGiven
        /\ ValuesGiven =>
                Contains(ret, "values = " \o JSONstringify(ArgValues))
        /\ Contains(ret, "    'weights': values") <=> ValuesGiven
        /\ Contains(ret, "    'values': cols,") <=> ValuesGiven
        /\ Contains(ret, "    'values': cols") <=> ~ValuesGiven

\* C17 witness: a script generated for a dataset whose values array is
\* empty, and so without values
C17_Witness ==
    /\ Generated
    /\ ArgValues = Arr(<< >>)
    /\ ~Contains(ret, "    'weights': values")

\* the ids of the catalog of charts
CatalogIds == {Get(chart, "id") : chart \in Range(mockChartTypes)}

\* C19 as stated: a chart of the catalog never gets the body of the default
\* branch, and a chart outside the catalog gets it.
C19_CatalogChartsHaveOwnBody ==
    Generated =>
        (LastLines(ret, 6) = PlainBody(Get(arg.dataset, "name").s)
            <=> ArgChartId \notin CatalogIds)

-----------------------------------------------------------------------------
(* Claims C18 and C20: the preview image and the loading flag *)

\* C18 as stated: an image shown in the preview area, with the effects run,
\* is the image of the script now displayed.
C18_ImageOfCurrentScript ==
    (Settled /\ PanelShown /\ DisplayedImage # Null) =>
        DisplayedImage = ImageFor(ExecuteRequest(visualization))

\* C20: under a service that settles every call, a set loading flag is
\* cleared in the end, whether the call succeeds, fails or is rejected; the
\* flag is set only by an execute that has a script and sends its request in
\* the same step, and no request is sent without a script or without
\* setting the flag.
C20_LoadingEnds ==
    /\ isLoading ~> ~isLoading
    /\ [][(~isLoading /\ isLoading') =>
            /\ Truthy(ChartCodeOf(visualization))
            /\ inflight' = Append(inflight, ExecuteRequest(visualization))
        ]_vars
    /\ [][Len(inflight') > Len(inflight) =>
            /\ Truthy(ChartCodeOf(visualization))
            /\ isLoading'
        ]_vars
    /\ [][\A i \in 1..Len(inflight) :
            \A outcome \in Outcomes(inflight[i]) :
                settleExecute(i, outcome) => ~isLoading'
        ]_vars

\* C20 witness: the flag is down again after a call was rejected, no call
\* in flight
C20_Witness ==
    /\ ~isLoading
    /\ inflight = << >>
    /\ toast = Toast("Error", "Network Error", "destructive")

====
